---- MODULE Spec2Model ----
(***************************************************************************)
(* A state-machine model of factory-lib's CraftingGraph                    *)
(* (src/factory-lib/src/domain.rs): the graph builder `from_dataset`, the  *)
(* tier pass `adjust_tiers` and the crafting-tree search                   *)
(* `get_crafting_trees`.  One action is one iteration of the corresponding *)
(* `while let` loop.                                                       *)
(*                                                                         *)
(* Node indices are 1-based here (petgraph's NodeIndex is 0-based); the    *)
(* index 0 stands for Option::None.  A recipe's `time` and `factory_kind`  *)
(* are left out: no modelled code reads them, and within one catalogue a   *)
(* recipe is identified by its name.                                       *)
(***************************************************************************)
EXTENDS Integers, Sequences, FiniteSets, TLC

VARIABLES
    dataset,             \* the DataSource handed to from_dataset
    pc,                  \* which function / loop is running
    run,                 \* number of adjust_tiers calls started so far
    graph,               \* the full CraftingGraph: [nodes, edges]
    current_indices,     \* worklist of from_dataset (stack) / adjust_tiers (queue)
    visited,             \* the `visited` HashSet of the running loop
    settled,             \* history: node indices in the order adjust_tiers settled them
    target,              \* get_crafting_trees: the `target` argument
    max_number_of_solutions, \* get_crafting_trees: the cap K
    processing_queue,    \* get_crafting_trees: the BinaryHeap, as a sequence
    complete_subgraphs,  \* get_crafting_trees: the collected solutions
    ret,                 \* get_crafting_trees: "None" / "Some" once returned
    earlier_build        \* history: the listing and the graph of an earlier from_dataset

vars == <<dataset, pc, run, graph, current_indices, visited, settled, target,
          max_number_of_solutions, processing_queue, complete_subgraphs, ret,
          earlier_build>>

(***************************************************************************)
(* Bounds of the generated catalogues and of the search cap.               *)
(***************************************************************************)
MaxRecipes == 2
MaxIngredients == 2
MaxK == 2

(***************************************************************************)
(* Entities (entities.rs).                                                 *)
(***************************************************************************)
Item(name, natural) == [name |-> name, natural |-> natural]

Recipe(name, ingredients, results) ==
    [name |-> name, ingredients |-> ingredients, results |-> results]

\* an (ItemAmount, Item) pair of a recipe's ingredient or result list
Amt(amount, item) == [amount |-> amount, item |-> item]

(***************************************************************************)
(* Node (domain.rs:49-67): Item(&Item, Tier) | Recipe(&Recipe, Tier).      *)
(* The derived PartialEq compares variant, entity and tier, which is       *)
(* record equality here.                                                   *)
(***************************************************************************)
ItemNode(item, tier) ==
    [kind |-> "Item", name |-> item.name, natural |-> item.natural, tier |-> tier]

RecipeNode(recipe, tier) ==
    [kind |-> "Recipe", name |-> recipe.name, natural |-> FALSE, tier |-> tier]

get_tier(node) == node.tier

set_tier(node, new_tier) == [node EXCEPT !.tier = new_tier]

(***************************************************************************)
(* DataSource (traits.rs).                                                 *)
(***************************************************************************)
RECURSIVE NaturalFrom(_, _)
NaturalFrom(items, k) ==
    IF k > Len(items) THEN <<>>
    ELSE IF items[k].natural THEN <<items[k]>> \o NaturalFrom(items, k + 1)
    ELSE NaturalFrom(items, k + 1)

\* mutant of natural_items: every item counts as natural
natural_items_all(ds) == ds.items

\* DataSource::natural_items: iter_items().filter(|item| item.natural)
natural_items(ds) == NaturalFrom(ds.items, 1)

get_recipe(ds, name) ==
    ds.recipes[CHOOSE i \in 1..Len(ds.recipes) :
                  /\ ds.recipes[i].name = name
                  /\ \A j \in 1..(i - 1) : ds.recipes[j].name # name]

(***************************************************************************)
(* The catalogues the model is run on.                                     *)
(***************************************************************************)
\* tests::DataSetMock::new (domain.rs:598-677), the literal four-recipe data
DataSetMock ==
    LET ironOre == Item("iron-ore", TRUE)
        copperOre == Item("copper-ore", TRUE)
        ironPlate == Item("iron-plate", FALSE)
        copperPlate == Item("copper-plate", FALSE)
        copperCable == Item("copper-cable", FALSE)
        circuit == Item("electronic-circuit", FALSE)
    IN [items |-> <<ironOre, copperOre, ironPlate, copperPlate, copperCable, circuit>>,
        recipes |-> <<
            Recipe("copper-plate", <<Amt(1, copperOre)>>, <<Amt(1, copperPlate)>>),
            Recipe("copper-cable", <<Amt(1, copperPlate)>>, <<Amt(2, copperCable)>>),
            Recipe("iron-plate", <<Amt(1, ironOre)>>, <<Amt(1, ironPlate)>>),
            Recipe("electronic-circuit",
                   <<Amt(3, copperCable), Amt(1, ironPlate)>>,
                   <<Amt(1, circuit)>>) >>]

\* The barrel recipes that factory-exploration loads (main.rs:30-49), cut
\* down to one fluid: filling and emptying a barrel undo each other.
BarrelData ==
    LET oil == Item("crude-oil", TRUE)
        ore == Item("iron-ore", TRUE)
        barrel == Item("empty-barrel", FALSE)
        full == Item("crude-oil-barrel", FALSE)
    IN [items |-> <<oil, ore, barrel, full>>,
        recipes |-> <<
            Recipe("empty-barrel", <<Amt(1, ore)>>, <<Amt(1, barrel)>>),
            Recipe("fill-crude-oil-barrel",
                   <<Amt(50, oil), Amt(1, barrel)>>, <<Amt(1, full)>>),
            Recipe("empty-crude-oil-barrel",
                   <<Amt(1, full)>>, <<Amt(50, oil), Amt(1, barrel)>>) >>]

\* Three recipes over one natural item: "b" has an early producer (from-a)
\* and a late one (mix, which waits for "c").
LateProducerData ==
    LET a == Item("a", TRUE)
        b == Item("b", FALSE)
        c == Item("c", FALSE)
    IN [items |-> <<a, b, c>>,
        recipes |-> <<
            Recipe("make-c", <<Amt(1, a)>>, <<Amt(1, c)>>),
            Recipe("mix", <<Amt(1, a), Amt(2, c)>>, <<Amt(1, b)>>),
            Recipe("from-a", <<Amt(1, a)>>, <<Amt(1, b)>>) >>]

\* A recipe without ingredients (conjure), a recipe whose only ingredient
\* nothing natural leads to (refine), and one recipe over the natural item.
FreeRecipeData ==
    LET a == Item("a", TRUE)
        b == Item("b", FALSE)
        c == Item("c", FALSE)
    IN [items |-> <<a, b, c>>,
        recipes |-> <<
            Recipe("conjure", <<>>, <<Amt(1, b)>>),
            Recipe("refine", <<Amt(1, b)>>, <<Amt(1, c)>>),
            Recipe("smelt", <<Amt(2, a)>>, <<Amt(1, c)>>) >>]

Reverse(s) == [i \in 1..Len(s) |-> s[Len(s) + 1 - i]]

\* The literal catalogue with its items and its recipes listed in the
\* opposite order.
ReversedMock ==
    [items |-> Reverse(DataSetMock.items), recipes |-> Reverse(DataSetMock.recipes)]

\* Generated catalogues: items a, b, c; "a" is always natural and is never a
\* result, "b" may be natural; every recipe has 1..MaxIngredients distinct
\* ingredients and one result; up to MaxRecipes recipes in any order.
GenNames == <<"a", "b", "c">>

RecipeNames == <<"r1", "r2", "r3", "r4">>

NaturalChoices == {{"a"}, {"a", "b"}}

GenItem(nat, i) == Item(GenNames[i], GenNames[i] \in nat)

\* a recipe shape: the set of ingredient indices and the result index
Shapes ==
    {[ins |-> ins, out |-> out] :
        ins \in {s \in SUBSET (1..Len(GenNames)) :
                    Cardinality(s) >= 1 /\ Cardinality(s) <= MaxIngredients},
        out \in 2..Len(GenNames)}

RECURSIVE SetToSeq(_)
\* the elements of a set of integers in increasing order
SetToSeq(s) ==
    IF s = {} THEN <<>>
    ELSE LET m == CHOOSE x \in s : \A y \in s : x <= y
         IN <<m>> \o SetToSeq(s \ {m})

\* the consumed amount is the ingredient's index, the produced amount 4 + index
GenRecipe(nat, name, shape) ==
    LET ins == SetToSeq(shape.ins)
    IN Recipe(name,
              [k \in 1..Len(ins) |-> Amt(ins[k], GenItem(nat, ins[k]))],
              <<Amt(4 + shape.out, GenItem(nat, shape.out))>>)

GenCatalogues ==
    {[items |-> [i \in 1..Len(GenNames) |-> GenItem(nat, i)],
      recipes |-> [k \in 1..Len(shapes) |-> GenRecipe(nat, RecipeNames[k], shapes[k])]] :
        nat \in NaturalChoices,
        shapes \in UNION {[1..n -> Shapes] : n \in 0..MaxRecipes}}

Catalogues ==
    GenCatalogues
        \cup {DataSetMock, BarrelData, LateProducerData, FreeRecipeData, ReversedMock}

(***************************************************************************)
(* petgraph's DiGraph<Node, ItemAmount> as [nodes, edges]: nodes in index  *)
(* order, edges in insertion order.                                        *)
(***************************************************************************)
EmptyGraph == [nodes |-> <<>>, edges |-> <<>>]

add_node(g, node) == [g EXCEPT !.nodes = Append(@, node)]

\* mutant of add_edge: the edge is added from b to a
add_edge_reversed(g, a, b, weight) ==
    [g EXCEPT !.edges = Append(@, [src |-> b, dst |-> a, weight |-> weight])]

add_edge(g, a, b, weight) ==
    [g EXCEPT !.edges = Append(@, [src |-> a, dst |-> b, weight |-> weight])]

\* Graph::update_edge: set the weight of an existing a -> b edge, else add one
update_edge(g, a, b, weight) ==
    IF \E k \in 1..Len(g.edges) : g.edges[k].src = a /\ g.edges[k].dst = b
    THEN LET k == CHOOSE k \in 1..Len(g.edges) :
                     /\ g.edges[k].src = a /\ g.edges[k].dst = b
                     /\ \A j \in (k + 1)..Len(g.edges) :
                            ~(g.edges[j].src = a /\ g.edges[j].dst = b)
         IN [g EXCEPT !.edges[k].weight = weight]
    ELSE add_edge(g, a, b, weight)

RECURSIVE NeighborsFrom(_, _, _, _)
\* Graph::neighbors_directed: a node's edge list is walked from the most
\* recently added edge to the oldest, one entry per edge
NeighborsFrom(g, i, dir, k) ==
    IF k = 0 THEN <<>>
    ELSE LET e == g.edges[k]
         IN IF dir = "Outgoing" /\ e.src = i
            THEN <<e.dst>> \o NeighborsFrom(g, i, dir, k - 1)
            ELSE IF dir = "Incoming" /\ e.dst = i
            THEN <<e.src>> \o NeighborsFrom(g, i, dir, k - 1)
            ELSE NeighborsFrom(g, i, dir, k - 1)

\* mutant of neighbors_directed: every neighbour is listed twice
neighbors_directed_twice(g, i, dir) ==
    NeighborsFrom(g, i, dir, Len(g.edges)) \o NeighborsFrom(g, i, dir, Len(g.edges))

neighbors_directed(g, i, dir) == NeighborsFrom(g, i, dir, Len(g.edges))

RECURSIVE InsertByTier(_, _, _)
\* idx put into the tier-sorted sequence s after every entry of tier <= its own
InsertByTier(g, s, idx) ==
    IF s = <<>> THEN <<idx>>
    ELSE IF get_tier(g.nodes[idx]) < get_tier(g.nodes[Head(s)])
    THEN <<idx>> \o s
    ELSE <<Head(s)>> \o InsertByTier(g, Tail(s), idx)

RECURSIVE SortUpTo(_, _, _)
SortUpTo(g, s, k) ==
    IF k = 0 THEN <<>> ELSE InsertByTier(g, SortUpTo(g, s, k - 1), s[k])

\* itertools' sorted_by on the tier: a stable sort
sorted_by_tier(g, s) == SortUpTo(g, s, Len(s))

(***************************************************************************)
(* Index lookups (domain.rs:349-374); 0 is None.                           *)
(***************************************************************************)
\* Iterator::position: the least of the matching positions
FirstPosition(matching) ==
    IF matching = {} THEN 0
    ELSE CHOOSE i \in matching : \A j \in matching : i <= j

get_node_idx(g, target_node) ==
    FirstPosition({i \in 1..Len(g.nodes) : g.nodes[i] = target_node})

\* mutant of get_item_idx_from_name: the name alone decides, a recipe node of
\* that name is taken for the item
get_item_idx_from_name_any_kind(g, item_name) ==
    FirstPosition({i \in 1..Len(g.nodes) : g.nodes[i].name = item_name})

\* mutant of get_item_idx_from_name: the item is never found
get_item_idx_from_name_never(g, item_name) == 0

get_item_idx_from_name(g, item_name) ==
    FirstPosition({i \in 1..Len(g.nodes) :
                      g.nodes[i].kind = "Item" /\ g.nodes[i].name = item_name})

\* mutant of get_recipe_idx_from_name: the recipe is never found
get_recipe_idx_from_name_never(g, recipe_name) == 0

get_recipe_idx_from_name(g, recipe_name) ==
    FirstPosition({i \in 1..Len(g.nodes) :
                      g.nodes[i].kind = "Recipe" /\ g.nodes[i].name = recipe_name})

(***************************************************************************)
(* from_dataset (domain.rs:131-201).                                       *)
(***************************************************************************)
\* mutant of DependsOn: only the first listed ingredient counts
DependsOnFirst(recipe, item_name) ==
    recipe.ingredients # <<>> /\ recipe.ingredients[1].item.name = item_name

\* rec.ingredients.iter().any(|(_, ingredient)| ingredient.name == item.name)
DependsOn(recipe, item_name) ==
    \E k \in 1..Len(recipe.ingredients) : recipe.ingredients[k].item.name = item_name

\* mutant of input_amount: one unit of the item, whatever the recipe lists
input_amount_one(recipe, item_name) == 1

\* the find_map of lines 162-172: the first listed amount of the item
input_amount(recipe, item_name) ==
    LET k == CHOOSE k \in 1..Len(recipe.ingredients) :
                /\ recipe.ingredients[k].item.name = item_name
                /\ \A j \in 1..(k - 1) : recipe.ingredients[j].item.name # item_name
    IN recipe.ingredients[k].amount

\* the tier a node gets when the builder creates it from a node of `tier`
ProvisionalTier(tier) == tier + 1

RECURSIVE BuildItemLoop(_, _, _, _, _)
\* lines 155-179 from recipe number k on; st = [graph, stack]
BuildItemLoop(st, recipes, current_idx, node, k) ==
    IF k > Len(recipes) THEN st
    ELSE IF ~DependsOn(recipes[k], node.name)
    THEN BuildItemLoop(st, recipes, current_idx, node, k + 1)
    ELSE LET recipe == recipes[k]
             found == get_recipe_idx_from_name(st.graph, recipe.name)
             g1 == IF found = 0
                   THEN add_node(st.graph, RecipeNode(recipe, ProvisionalTier(node.tier)))
                   ELSE st.graph
             recipe_idx == IF found = 0 THEN Len(g1.nodes) ELSE found
             g2 == update_edge(g1, current_idx, recipe_idx,
                               input_amount(recipe, node.name))
         IN BuildItemLoop([graph |-> g2, stack |-> Append(st.stack, recipe_idx)],
                          recipes, current_idx, node, k + 1)

RECURSIVE BuildRecipeLoop(_, _, _, _, _)
\* lines 183-191 from result number k on
BuildRecipeLoop(st, results, current_idx, node, k) ==
    IF k > Len(results) THEN st
    ELSE LET item == results[k].item
             found == get_item_idx_from_name(st.graph, item.name)
             g1 == IF found = 0
                   THEN add_node(st.graph, ItemNode(item, ProvisionalTier(node.tier)))
                   ELSE st.graph
             item_idx == IF found = 0 THEN Len(g1.nodes) ELSE found
             g2 == add_edge(g1, current_idx, item_idx, results[k].amount)
         IN BuildRecipeLoop([graph |-> g2, stack |-> Append(st.stack, item_idx)],
                            results, current_idx, node, k + 1)

Last(s) == s[Len(s)]

Front(s) == SubSeq(s, 1, Len(s) - 1)

\* lines 132-140: one Item node of tier 0 per natural item, all on the stack
FromDataset ==
    /\ pc = "start"
    /\ LET nat == natural_items(dataset)
       IN /\ graph' = [nodes |-> [i \in 1..Len(nat) |-> ItemNode(nat[i], 0)],
                       edges |-> <<>>]
          /\ current_indices' = [i \in 1..Len(nat) |-> i]
    /\ visited' = {}
    /\ pc' = "from_dataset"
    /\ UNCHANGED <<earlier_build, dataset, run, settled, target, max_number_of_solutions,
                   processing_queue, complete_subgraphs, ret>>

\* lines 142-145: a popped index that was processed before is dropped
BuildSkip ==
    /\ pc = "from_dataset"
    /\ current_indices # <<>>
    /\ Last(current_indices) \in visited
    /\ current_indices' = Front(current_indices)
    /\ UNCHANGED <<earlier_build, dataset, pc, run, graph, visited, settled, target,
                   max_number_of_solutions, processing_queue, complete_subgraphs, ret>>

\* lines 148-180 and 195
BuildItem ==
    /\ pc = "from_dataset"
    /\ current_indices # <<>>
    /\ LET current_idx == Last(current_indices)
           node == graph.nodes[current_idx]
           st == BuildItemLoop([graph |-> graph, stack |-> Front(current_indices)],
                               dataset.recipes, current_idx, node, 1)
       IN /\ current_idx \notin visited
          /\ node.kind = "Item"
          /\ graph' = st.graph
          /\ current_indices' = st.stack
          /\ visited' = visited \cup {current_idx}
    /\ UNCHANGED <<earlier_build, dataset, pc, run, settled, target, max_number_of_solutions,
                   processing_queue, complete_subgraphs, ret>>

\* lines 182-192 and 195
BuildRecipe ==
    /\ pc = "from_dataset"
    /\ current_indices # <<>>
    /\ LET current_idx == Last(current_indices)
           node == graph.nodes[current_idx]
           st == BuildRecipeLoop([graph |-> graph, stack |-> Front(current_indices)],
                                 get_recipe(dataset, node.name).results,
                                 current_idx, node, 1)
       IN /\ current_idx \notin visited
          /\ node.kind = "Recipe"
          /\ graph' = st.graph
          /\ current_indices' = st.stack
          /\ visited' = visited \cup {current_idx}
    /\ UNCHANGED <<earlier_build, dataset, pc, run, settled, target, max_number_of_solutions,
                   processing_queue, complete_subgraphs, ret>>

(***************************************************************************)
(* Neighbour queries (domain.rs:277-347): Option<Vec<NodeIndex>>.          *)
(***************************************************************************)
None == [some |-> FALSE, val |-> <<>>]

Some(v) == [some |-> TRUE, val |-> v]

unwrap_or_default(opt) == opt.val

NeighboursOf(g, node, kind, dir) ==
    IF node.kind = kind
    THEN LET idx == get_node_idx(g, node)
         IN IF idx = 0 THEN None
            ELSE Some(sorted_by_tier(g, neighbors_directed(g, idx, dir)))
    ELSE None

get_ingredients_for_recipe_idx(g, node) == NeighboursOf(g, node, "Recipe", "Incoming")

get_results_for_recipe_idxs(g, node) == NeighboursOf(g, node, "Recipe", "Outgoing")

get_items_as_ingredients_in_recipes_idxs(g, node) ==
    NeighboursOf(g, node, "Item", "Outgoing")

get_recipes_with_item_in_outputs(g, node) == NeighboursOf(g, node, "Item", "Incoming")

(***************************************************************************)
(* adjust_tiers (domain.rs:203-275).                                       *)
(***************************************************************************)
\* the tier natural items are pinned to (line 233)
NaturalTier == 1

\* .min().unwrap_or(1): the producers' minimum of an item nothing produces
NoProducerTier == 1

RECURSIVE SeedLoop(_, _, _)
\* lines 207-213 from natural item number k on; st = [graph, queue]
SeedLoop(st, nat, k) ==
    IF k > Len(nat) THEN st
    ELSE LET found == get_node_idx(st.graph, ItemNode(nat[k], 0))
             g1 == IF found = 0 THEN add_node(st.graph, ItemNode(nat[k], 0))
                   ELSE st.graph
             idx == IF found = 0 THEN Len(g1.nodes) ELSE found
         IN SeedLoop([graph |-> g1, queue |-> Append(st.queue, idx)], nat, k + 1)

RECURSIVE MinTier(_, _)
\* the least tier among the nodes idxs, or dflt for none
MinTier(g, idxs) ==
    IF Len(idxs) = 1 THEN get_tier(g.nodes[idxs[1]])
    ELSE LET m == MinTier(g, Tail(idxs))
             t == get_tier(g.nodes[Head(idxs)])
         IN IF t <= m THEN t ELSE m

\* lines 222-228
recipes_tier_min(g, node) ==
    LET producers == unwrap_or_default(get_recipes_with_item_in_outputs(g, node))
    IN IF producers = <<>> THEN NoProducerTier ELSE MinTier(g, producers)

\* mutant of ItemTier: the natural override of lines 232-234 is left out
ItemTierUnpinned(tier_min, natural) == tier_min + 1

\* lines 230-234: min + 1, and natural items forced to the base tier
ItemTier(tier_min, natural) == IF natural THEN NaturalTier ELSE tier_min + 1

RECURSIVE TierSum(_, _)
TierSum(g, idxs) ==
    IF idxs = <<>> THEN 0 ELSE get_tier(g.nodes[Head(idxs)]) + TierSum(g, Tail(idxs))

\* line 260
RecipeTier(ingredients_tier_sum) == ingredients_tier_sum + 1

\* mutant of MustDefer: a recipe is never deferred
MustDeferNever(ingredients, seen) == FALSE

\* line 247: some ingredient has not been settled yet
MustDefer(ingredients, seen) ==
    \E k \in 1..Len(ingredients) : ingredients[k] \notin seen

\* mutant of AlreadyVisited: the visited check of the tier pass is left out
AlreadyVisitedNever(idx, seen) == FALSE

\* lines 216-218: a popped index is processed only if it was not before
AlreadyVisited(idx, seen) == idx \in seen

SetNodeTier(g, idx, tier) == [g EXCEPT !.nodes[idx] = set_tier(@, tier)]

\* lines 204-213, shared by the call from from_dataset and by a later call
StartAdjustTiers ==
    LET st == SeedLoop([graph |-> graph, queue |-> <<>>], natural_items(dataset), 1)
    IN /\ graph' = st.graph
       /\ current_indices' = st.queue
       /\ visited' = {}
       /\ settled' = <<>>
       /\ run' = run + 1
       /\ pc' = "adjust_tiers"

\* line 198: the builder's worklist is empty, from_dataset calls adjust_tiers
BuildDone ==
    /\ pc = "from_dataset"
    /\ current_indices = <<>>
    /\ StartAdjustTiers
    /\ UNCHANGED <<earlier_build, dataset, target, max_number_of_solutions, processing_queue,
                   complete_subgraphs, ret>>

\* the caller runs adjust_tiers again on the graph from_dataset returned
Rerun ==
    /\ pc = "ready"
    /\ run = 1
    /\ StartAdjustTiers
    /\ UNCHANGED <<earlier_build, dataset, target, max_number_of_solutions, processing_queue,
                   complete_subgraphs, ret>>

TierSkip ==
    /\ pc = "adjust_tiers"
    /\ current_indices # <<>>
    /\ AlreadyVisited(Head(current_indices), visited)
    /\ current_indices' = Tail(current_indices)
    /\ UNCHANGED <<earlier_build, dataset, pc, run, graph, visited, settled, target,
                   max_number_of_solutions, processing_queue, complete_subgraphs, ret>>

\* lines 221-240 and 273
TierItem ==
    /\ pc = "adjust_tiers"
    /\ current_indices # <<>>
    /\ LET current_idx == Head(current_indices)
           node == graph.nodes[current_idx]
           g1 == SetNodeTier(graph, current_idx,
                             ItemTier(recipes_tier_min(graph, node), node.natural))
           consumers == unwrap_or_default(
               get_items_as_ingredients_in_recipes_idxs(g1, g1.nodes[current_idx]))
       IN /\ ~AlreadyVisited(current_idx, visited)
          /\ node.kind = "Item"
          /\ graph' = g1
          /\ current_indices' = Tail(current_indices) \o consumers
          /\ visited' = visited \cup {current_idx}
          /\ settled' = Append(settled, current_idx)
    /\ UNCHANGED <<earlier_build, dataset, pc, run, target, max_number_of_solutions,
                   processing_queue, complete_subgraphs, ret>>

\* lines 246-251: the recipe goes back to the end of the queue, unsettled
TierDefer ==
    /\ pc = "adjust_tiers"
    /\ current_indices # <<>>
    /\ LET current_idx == Head(current_indices)
           node == graph.nodes[current_idx]
           input_items == get_ingredients_for_recipe_idx(graph, node)
       IN /\ ~AlreadyVisited(current_idx, visited)
          /\ node.kind = "Recipe"
          /\ input_items.some
          /\ MustDefer(input_items.val, visited)
          /\ current_indices' = Append(Tail(current_indices), current_idx)
    /\ UNCHANGED <<earlier_build, dataset, pc, run, graph, visited, settled, target,
                   max_number_of_solutions, processing_queue, complete_subgraphs, ret>>

\* lines 253-270 and 273
TierRecipe ==
    /\ pc = "adjust_tiers"
    /\ current_indices # <<>>
    /\ LET current_idx == Head(current_indices)
           node == graph.nodes[current_idx]
           input_items == get_ingredients_for_recipe_idx(graph, node)
           g1 == IF input_items.some
                 THEN SetNodeTier(graph, current_idx,
                                  RecipeTier(TierSum(graph, input_items.val)))
                 ELSE SetNodeTier(graph, current_idx, 0)
           results == IF input_items.some
                      THEN unwrap_or_default(
                               get_results_for_recipe_idxs(g1, g1.nodes[current_idx]))
                      ELSE <<>>
       IN /\ ~AlreadyVisited(current_idx, visited)
          /\ node.kind = "Recipe"
          /\ ~(input_items.some /\ MustDefer(input_items.val, visited))
          /\ graph' = g1
          /\ current_indices' = Tail(current_indices) \o results
          /\ visited' = visited \cup {current_idx}
          /\ settled' = Append(settled, current_idx)
    /\ UNCHANGED <<earlier_build, dataset, pc, run, target, max_number_of_solutions,
                   processing_queue, complete_subgraphs, ret>>

\* line 215: the queue is empty, adjust_tiers returns
TierReturn ==
    /\ pc = "adjust_tiers"
    /\ current_indices = <<>>
    /\ pc' = IF run = 1 THEN "ready" ELSE "retiered"
    /\ UNCHANGED <<earlier_build, dataset, run, graph, current_indices, visited, settled, target,
                   max_number_of_solutions, processing_queue, complete_subgraphs, ret>>

(***************************************************************************)
(* get_crafting_trees (domain.rs:382-488).                                 *)
(***************************************************************************)
\* the sum of the tiers of a graph's nodes (lines 92-94)
Score(g) == TierSum(g, [i \in 1..Len(g.nodes) |-> i])

\* mutant of GraphLess: the comparison is not reversed, the heap pops the
\* graph of the greatest tier sum
GraphLessUnreversed(a, b) == Score(a) < Score(b)

\* impl Ord for CraftingGraph (lines 90-100): the comparison is reversed, so
\* that the max-heap pops the graph of the least tier sum
GraphLess(a, b) == Score(b) < Score(a)

GraphEqual(a, b) == Score(a) = Score(b)

RECURSIVE VecLess(_, _)
\* Ord for Vec<(NodeIndex, NodeIndex)>: lexicographic, a proper prefix is less
VecLess(a, b) ==
    IF b = <<>> THEN FALSE
    ELSE IF a = <<>> THEN TRUE
    ELSE IF Head(a) = Head(b) THEN VecLess(Tail(a), Tail(b))
    ELSE \/ Head(a)[1] < Head(b)[1]
         \/ Head(a)[1] = Head(b)[1] /\ Head(a)[2] < Head(b)[2]

\* Ord for the heap's (Self, Vec<..>) entries
EntryLess(e1, e2) ==
    \/ GraphLess(e1.subgraph, e2.subgraph)
    \/ /\ GraphEqual(e1.subgraph, e2.subgraph)
       /\ VecLess(e1.processing_indices, e2.processing_indices)

Entry(subgraph, processing_indices) ==
    [subgraph |-> subgraph, processing_indices |-> processing_indices]

\* mutant of Poppable: pop returns any entry of the heap
PoppableAny(queue) == 1..Len(queue)

\* BinaryHeap::pop returns a greatest entry; which one of several entries
\* that compare equal is the heap's business
Poppable(queue) ==
    {i \in 1..Len(queue) : \A j \in 1..Len(queue) : ~EntryLess(queue[i], queue[j])}

Remove(queue, i) == SubSeq(queue, 1, i - 1) \o SubSeq(queue, i + 1, Len(queue))

\* mutant of CapReached: the loop stops one solution early
CapReachedEarly(found, cap) == found + 1 >= cap

\* line 407
CapReached(found, cap) == found >= cap

NoEdge == 0 - 1

\* mutant of edge_weight: every edge found is taken to weigh 1
edge_weight_one(g, a, b) ==
    IF \E k \in 1..Len(g.edges) : g.edges[k].src = a /\ g.edges[k].dst = b
    THEN 1
    ELSE NoEdge

\* edges_connecting(a, b).map(|edge| *edge.weight()).next(): the weight of
\* the most recently added a -> b edge, NoEdge for None
edge_weight(g, a, b) ==
    IF \E k \in 1..Len(g.edges) : g.edges[k].src = a /\ g.edges[k].dst = b
    THEN LET k == CHOOSE k \in 1..Len(g.edges) :
                     /\ g.edges[k].src = a /\ g.edges[k].dst = b
                     /\ \A j \in (k + 1)..Len(g.edges) :
                            ~(g.edges[j].src = a /\ g.edges[j].dst = b)
         IN g.edges[k].weight
    ELSE NoEdge

RECURSIVE ReachFrom(_, _)
\* the node indices a walk along outgoing edges reaches from the set seen
ReachFrom(g, seen) ==
    LET more == seen \cup {g.edges[k].dst : k \in {j \in 1..Len(g.edges) :
                                                     g.edges[j].src \in seen}}
    IN IF more = seen THEN seen ELSE ReachFrom(g, more)

\* lines 505-518: a Dfs from the parent along outgoing edges meets an equal node
copy_of_node_is_present_in_ancestors(g, node, parent_of_node_idx) ==
    \E idx \in ReachFrom(g, {parent_of_node_idx}) : g.nodes[idx] = node

RECURSIVE BranchLoopFirst(_, _, _, _, _, _, _)
\* mutant of BranchLoop: only the first producer gets a branch
BranchLoopFirst(self, out, entry, recipe_graph_idxs, current_graph_idx, current_sub_idx, k) ==
    IF k > Len(recipe_graph_idxs) \/ k > 1 THEN [abort |-> FALSE, pushed |-> out]
    ELSE LET recipe_graph_idx == recipe_graph_idxs[k]
             recipe == self.nodes[recipe_graph_idx]
             branched == add_node(entry.subgraph, recipe)
             added_recipe_subgraph_idx == Len(branched.nodes)
             recipe_output == edge_weight(self, recipe_graph_idx, current_graph_idx)
         IN IF recipe_output = NoEdge THEN [abort |-> TRUE, pushed |-> out]
            ELSE BranchLoopFirst(self,
                     Append(out,
                         Entry(add_edge(branched, added_recipe_subgraph_idx,
                                        current_sub_idx, recipe_output),
                               Append(entry.processing_indices,
                                      <<recipe_graph_idx, added_recipe_subgraph_idx>>))),
                     entry, recipe_graph_idxs, current_graph_idx, current_sub_idx, k + 1)

RECURSIVE BranchLoop(_, _, _, _, _, _, _)
\* lines 429-454 from recipe number k on: one cloned branch per producer
BranchLoop(self, out, entry, recipe_graph_idxs, current_graph_idx, current_sub_idx, k) ==
    IF k > Len(recipe_graph_idxs) THEN [abort |-> FALSE, pushed |-> out]
    ELSE LET recipe_graph_idx == recipe_graph_idxs[k]
             recipe == self.nodes[recipe_graph_idx]
             branched == add_node(entry.subgraph, recipe)
             added_recipe_subgraph_idx == Len(branched.nodes)
             recipe_output == edge_weight(self, recipe_graph_idx, current_graph_idx)
         IN IF recipe_output = NoEdge THEN [abort |-> TRUE, pushed |-> out]
            ELSE BranchLoop(self,
                     Append(out,
                         Entry(add_edge(branched, added_recipe_subgraph_idx,
                                        current_sub_idx, recipe_output),
                               Append(entry.processing_indices,
                                      <<recipe_graph_idx, added_recipe_subgraph_idx>>))),
                     entry, recipe_graph_idxs, current_graph_idx, current_sub_idx, k + 1)

\* mutant of QueueIngredient: every ingredient is queued, ancestor or not
QueueIngredientAlways(subgraph, item, current_subgraph_idx) == TRUE

\* mutant of QueueIngredient: no ingredient is ever queued for expansion
QueueIngredientNever(subgraph, item, current_subgraph_idx) == FALSE

\* lines 474-479: an ingredient is queued for expansion unless an equal node
\* is among the ancestors of the recipe
QueueIngredient(subgraph, item, current_subgraph_idx) ==
    ~copy_of_node_is_present_in_ancestors(subgraph, item, current_subgraph_idx)

RECURSIVE ExpandLoop(_, _, _, _, _, _)
\* lines 460-480 from ingredient number k on; entry is changed in place
ExpandLoop(self, entry, item_graph_idxs, current_graph_idx, current_subgraph_idx, k) ==
    IF k > Len(item_graph_idxs) THEN [abort |-> FALSE, entry |-> entry]
    ELSE LET item_graph_idx == item_graph_idxs[k]
             item == self.nodes[item_graph_idx]
             g1 == add_node(entry.subgraph, item)
             added_item_subgraph_idx == Len(g1.nodes)
             weight == edge_weight(self, item_graph_idx, current_graph_idx)
             g2 == add_edge(g1, added_item_subgraph_idx, current_subgraph_idx, weight)
         IN IF weight = NoEdge THEN [abort |-> TRUE, entry |-> entry]
            ELSE ExpandLoop(self,
                     Entry(g2,
                           IF QueueIngredient(g2, item, current_subgraph_idx)
                           THEN Append(entry.processing_indices,
                                       <<item_graph_idx, added_item_subgraph_idx>>)
                           ELSE entry.processing_indices),
                     item_graph_idxs, current_graph_idx, current_subgraph_idx, k + 1)

NoTarget == [kind |-> "None", name |-> "", natural |-> FALSE, tier |-> 0]

\* the Node values a caller passes: a node of the graph, a node of the graph
\* with a stale tier, or an item or a recipe the catalogue does not have
Targets ==
    {graph.nodes[i] : i \in 1..Len(graph.nodes)}
        \cup {set_tier(graph.nodes[i], 0) : i \in 1..Len(graph.nodes)}
        \cup {ItemNode(Item("unobtainium", FALSE), 0),
              RecipeNode(Recipe("unobtainium", <<>>, <<>>), 0)}

\* mutant of TargetNotFound: a target that is not found gives Some(vec![])
TargetNotFoundEmpty ==
    /\ pc = "ready"
    /\ \E t \in Targets, cap \in (0..MaxK) \cup {10} :
          /\ get_node_idx(graph, t) = 0
          /\ target' = t
          /\ max_number_of_solutions' = cap
    /\ ret' = "Some"
    /\ pc' = "returned"
    /\ UNCHANGED <<earlier_build, dataset, run, graph, current_indices, visited, settled,
                   processing_queue, complete_subgraphs>>

\* line 389: get_node_idx(target)? finds nothing
TargetNotFound ==
    /\ pc = "ready"
    /\ \E t \in Targets, cap \in (0..MaxK) \cup {10} :
          /\ get_node_idx(graph, t) = 0
          /\ target' = t
          /\ max_number_of_solutions' = cap
    /\ ret' = "None"
    /\ pc' = "returned"
    /\ UNCHANGED <<earlier_build, dataset, run, graph, current_indices, visited, settled,
                   processing_queue, complete_subgraphs>>

\* lines 387-398: the heap starts with the target alone
GetCraftingTrees ==
    /\ pc = "ready"
    /\ \E t \in Targets, cap \in (0..MaxK) \cup {10} :
          LET target_idx == get_node_idx(graph, t)
              first_tree == add_node(EmptyGraph, t)
          IN /\ target_idx # 0
             /\ target' = t
             /\ max_number_of_solutions' = cap
             /\ processing_queue' = <<Entry(first_tree, <<<<target_idx, 1>>>>)>>
    /\ complete_subgraphs' = <<>>
    /\ pc' = "get_crafting_trees"
    /\ UNCHANGED <<earlier_build, dataset, run, graph, current_indices, visited, settled, ret>>

\* lines 401-405: a popped entry with nothing pending is a solution
EnumCollect ==
    /\ pc = "get_crafting_trees"
    /\ \E i \in Poppable(processing_queue) :
          /\ processing_queue[i].processing_indices = <<>>
          /\ complete_subgraphs' = Append(complete_subgraphs, processing_queue[i].subgraph)
          /\ processing_queue' = Remove(processing_queue, i)
    /\ UNCHANGED <<earlier_build, dataset, pc, run, graph, current_indices, visited, settled, target,
                   max_number_of_solutions, ret>>

\* lines 407-409 and 487
EnumBreak ==
    /\ pc = "get_crafting_trees"
    /\ \E i \in Poppable(processing_queue) :
          /\ processing_queue[i].processing_indices # <<>>
          /\ CapReached(Len(complete_subgraphs), max_number_of_solutions)
          /\ processing_queue' = Remove(processing_queue, i)
    /\ ret' = "Some"
    /\ pc' = "returned"
    /\ UNCHANGED <<earlier_build, dataset, run, graph, current_indices, visited, settled, target,
                   max_number_of_solutions, complete_subgraphs>>

\* lines 411-427: a natural item is dropped from the pending list
EnumNatural ==
    /\ pc = "get_crafting_trees"
    /\ ~CapReached(Len(complete_subgraphs), max_number_of_solutions)
    /\ \E i \in Poppable(processing_queue) :
          LET popped == processing_queue[i]
              pending == popped.processing_indices
          IN /\ pending # <<>>
             /\ popped.subgraph.nodes[Last(pending)[2]].kind = "Item"
             /\ popped.subgraph.nodes[Last(pending)[2]].natural
             /\ processing_queue' =
                    Append(Remove(processing_queue, i),
                           Entry(popped.subgraph, Front(pending)))
    /\ UNCHANGED <<earlier_build, dataset, pc, run, graph, current_indices, visited, settled, target,
                   max_number_of_solutions, complete_subgraphs, ret>>

\* mutant of EnumBranch: natural items are branched like derived ones
EnumBranchAnyItem ==
    /\ pc = "get_crafting_trees"
    /\ ~CapReached(Len(complete_subgraphs), max_number_of_solutions)
    /\ \E i \in Poppable(processing_queue) :
          LET popped == processing_queue[i]
              pending == popped.processing_indices
              current_graph_idx == Last(pending)[1]
              current_subgraph_idx == Last(pending)[2]
              found == get_recipes_with_item_in_outputs(graph,
                                                        graph.nodes[current_graph_idx])
              recipe_graph_idxs == sorted_by_tier(graph, found.val)
              loop == BranchLoop(graph, <<>>, Entry(popped.subgraph, Front(pending)),
                                 recipe_graph_idxs, current_graph_idx,
                                 current_subgraph_idx, 1)
          IN /\ pending # <<>>
             /\ popped.subgraph.nodes[current_subgraph_idx].kind = "Item"
             /\ IF ~found.some \/ loop.abort
                THEN /\ ret' = "None"
                     /\ pc' = "returned"
                     /\ processing_queue' = Remove(processing_queue, i)
                ELSE /\ processing_queue' = Remove(processing_queue, i) \o loop.pushed
                     /\ UNCHANGED <<ret, pc>>
    /\ UNCHANGED <<earlier_build, dataset, run, graph, current_indices, visited, settled, target,
                   max_number_of_solutions, complete_subgraphs>>

\* lines 411-455: a derived item branches once per producing recipe
EnumBranch ==
    /\ pc = "get_crafting_trees"
    /\ ~CapReached(Len(complete_subgraphs), max_number_of_solutions)
    /\ \E i \in Poppable(processing_queue) :
          LET popped == processing_queue[i]
              pending == popped.processing_indices
              current_graph_idx == Last(pending)[1]
              current_subgraph_idx == Last(pending)[2]
              found == get_recipes_with_item_in_outputs(graph,
                                                        graph.nodes[current_graph_idx])
              recipe_graph_idxs == sorted_by_tier(graph, found.val)
              loop == BranchLoop(graph, <<>>, Entry(popped.subgraph, Front(pending)),
                                 recipe_graph_idxs, current_graph_idx,
                                 current_subgraph_idx, 1)
          IN /\ pending # <<>>
             /\ popped.subgraph.nodes[current_subgraph_idx].kind = "Item"
             /\ ~popped.subgraph.nodes[current_subgraph_idx].natural
             /\ IF ~found.some \/ loop.abort
                THEN /\ ret' = "None"
                     /\ pc' = "returned"
                     /\ processing_queue' = Remove(processing_queue, i)
                ELSE /\ processing_queue' = Remove(processing_queue, i) \o loop.pushed
                     /\ UNCHANGED <<ret, pc>>
    /\ UNCHANGED <<earlier_build, dataset, run, graph, current_indices, visited, settled, target,
                   max_number_of_solutions, complete_subgraphs>>

\* lines 411-413 and 456-483: a recipe gets all its ingredients attached
EnumExpand ==
    /\ pc = "get_crafting_trees"
    /\ ~CapReached(Len(complete_subgraphs), max_number_of_solutions)
    /\ \E i \in Poppable(processing_queue) :
          LET popped == processing_queue[i]
              pending == popped.processing_indices
              current_graph_idx == Last(pending)[1]
              current_subgraph_idx == Last(pending)[2]
              item_graph_idxs ==
                  get_ingredients_for_recipe_idx(graph, graph.nodes[current_graph_idx])
              loop == ExpandLoop(graph, Entry(popped.subgraph, Front(pending)),
                                 item_graph_idxs.val, current_graph_idx,
                                 current_subgraph_idx, 1)
          IN /\ pending # <<>>
             /\ popped.subgraph.nodes[current_subgraph_idx].kind = "Recipe"
             /\ IF ~item_graph_idxs.some \/ loop.abort
                THEN /\ ret' = "None"
                     /\ pc' = "returned"
                     /\ processing_queue' = Remove(processing_queue, i)
                ELSE /\ processing_queue' =
                            Append(Remove(processing_queue, i), loop.entry)
                     /\ UNCHANGED <<ret, pc>>
    /\ UNCHANGED <<earlier_build, dataset, run, graph, current_indices, visited, settled, target,
                   max_number_of_solutions, complete_subgraphs>>

\* lines 400 and 487: the heap is empty
EnumReturn ==
    /\ pc = "get_crafting_trees"
    /\ processing_queue = <<>>
    /\ ret' = "Some"
    /\ pc' = "returned"
    /\ UNCHANGED <<earlier_build, dataset, run, graph, current_indices, visited, settled, target,
                   max_number_of_solutions, processing_queue, complete_subgraphs>>

Init ==
    /\ dataset \in Catalogues
    /\ pc = "start"
    /\ run = 0
    /\ graph = EmptyGraph
    /\ current_indices = <<>>
    /\ visited = {}
    /\ settled = <<>>
    /\ target = NoTarget
    /\ max_number_of_solutions = 0
    /\ processing_queue = <<>>
    /\ complete_subgraphs = <<>>
    /\ ret = "running"
    /\ earlier_build = <<>>

Next ==
    \/ FromDataset
    \/ BuildSkip
    \/ BuildItem
    \/ BuildRecipe
    \/ BuildDone
    \/ TierSkip
    \/ TierItem
    \/ TierDefer
    \/ TierRecipe
    \/ TierReturn
    \/ Rerun
    \/ TargetNotFound
    \/ GetCraftingTrees
    \/ EnumCollect
    \/ EnumBreak
    \/ EnumNatural
    \/ EnumBranch
    \/ EnumExpand
    \/ EnumReturn

Spec == Init /\ [][Next]_vars

(***************************************************************************)
(* A second CraftingGraph of the same catalogue.  DataSet::from_str        *)
(* (data.rs, lines 45-49) reads the recipes into a HashMap and takes them  *)
(* out with into_values(): the order of the recipes is the map's iteration *)
(* order, which Rust randomises per process, so one catalogue file has     *)
(* several listings.  A caller may build a graph from one listing and then *)
(* from another; the first build is kept in earlier_build so that the two  *)
(* results can be compared.                                                *)
(***************************************************************************)
\* every ordering of the elements of a sequence
Orderings(s) ==
    {[i \in 1..Len(s) |-> s[q[i]]] :
        q \in {f \in [1..Len(s) -> 1..Len(s)] :
                  \A i, j \in 1..Len(s) : f[i] = f[j] => i = j}}

\* the other listings of a catalogue: its recipes in any order, its items as
\* they are or in the opposite order
Listings(ds) ==
    {[items |-> its, recipes |-> rcps] :
        its \in {ds.items, Reverse(ds.items)},
        rcps \in Orderings(ds.recipes)} \ {ds}

\* from_dataset has returned; it is called again on another listing of the
\* same catalogue and builds a fresh graph
Relist ==
    /\ pc = "ready"
    /\ run = 1
    /\ earlier_build = <<>>
    /\ earlier_build' = <<[dataset |-> dataset, graph |-> graph]>>
    /\ dataset' \in Listings(dataset)
    /\ pc' = "start"
    /\ run' = 0
    /\ graph' = EmptyGraph
    /\ current_indices' = <<>>
    /\ visited' = {}
    /\ settled' = <<>>
    /\ UNCHANGED <<target, max_number_of_solutions, processing_queue,
                   complete_subgraphs, ret>>

NextListings ==
    \/ Next
    \/ Relist

SpecListings == Init /\ [][NextListings]_vars

(***************************************************************************)
(* Vocabulary of the properties.                                           *)
(***************************************************************************)
NodeIdxs(g) == 1..Len(g.nodes)

Producers(g, i) == {g.edges[k].src : k \in {j \in 1..Len(g.edges) : g.edges[j].dst = i}}

Consumers(g, i) == {g.edges[k].dst : k \in {j \in 1..Len(g.edges) : g.edges[j].src = i}}

IncomingEdges(g, i) == {k \in 1..Len(g.edges) : g.edges[k].dst = i}

\* no node lies on a directed cycle
Acyclic(g) == \A i \in NodeIdxs(g) : i \notin ReachFrom(g, Consumers(g, i))

RECURSIVE SetTierSum(_, _)
SetTierSum(g, idxs) ==
    IF idxs = {} THEN 0
    ELSE LET i == CHOOSE x \in idxs : TRUE
         IN get_tier(g.nodes[i]) + SetTierSum(g, idxs \ {i})

SetTierMin(g, idxs) ==
    get_tier(g.nodes[CHOOSE i \in idxs :
                        \A j \in idxs : get_tier(g.nodes[i]) <= get_tier(g.nodes[j])])

Occurrences(s, x) == Cardinality({k \in 1..Len(s) : s[k] = x})

\* from_dataset is handing its graph to the caller; a query on the graph
\* leaves the graph as it is in this state
FromDatasetReturned == run = 1 /\ pc = "ready"

\* the tier pass can do nothing but defer: every queued index is an unsettled
\* recipe that waits for an unsettled ingredient, so each iteration puts the
\* popped recipe back and the queue only rotates
TierLivelock ==
    /\ pc = "adjust_tiers"
    /\ current_indices # <<>>
    /\ \A k \in 1..Len(current_indices) :
          LET idx == current_indices[k]
          IN /\ idx \notin visited
             /\ graph.nodes[idx].kind = "Recipe"
             /\ Producers(graph, idx) \ visited # {}

Solutions == {complete_subgraphs[k] : k \in 1..Len(complete_subgraphs)}

(***************************************************************************)
(* Properties.                                                             *)
(***************************************************************************)

\* C1: the list get_crafting_trees returns holds at most K solutions.
C1_AtMostKSolutions ==
    ret = "Some" => Len(complete_subgraphs) <= max_number_of_solutions

\* C2: tier assignment terminates on every catalogue, cyclic ones included:
\* the re-enqueueing of deferred recipes is bounded.  The pass terminates
\* exactly if it never gets into a state where deferring is all it can do.
C2_RequeueBounded == ~TierLivelock

\* C3: on an acyclic full graph the tier pass of from_dataset terminates, and
\* when it has, every node was settled exactly once and has a tier.  An
\* iteration drops a queue entry, settles a node not settled before, or
\* defers; so the pass can only fail to terminate by deferring for ever, which
\* is to reach a TierLivelock state.
C3_AcyclicSettlesOnce ==
    /\ TierLivelock /\ run = 1 => ~Acyclic(graph)
    /\ run = 1 /\ pc = "adjust_tiers" /\ Acyclic(graph) =>
            \A i \in NodeIdxs(graph) :
                /\ Occurrences(settled, i) <= 1
                /\ Occurrences(settled, i) = 1 <=> i \in visited
    /\ FromDatasetReturned /\ Acyclic(graph) =>
            \A i \in NodeIdxs(graph) :
                /\ Occurrences(settled, i) = 1
                /\ i \in visited
                /\ get_tier(graph.nodes[i]) \in Nat

\* the pass has returned on an acyclic graph with a two-ingredient recipe
C3_Witness ==
    /\ pc = "ready"
    /\ Acyclic(graph)
    /\ \E i \in NodeIdxs(graph) :
          graph.nodes[i].kind = "Recipe" /\ Cardinality(Producers(graph, i)) >= 2

\* C4: running adjust_tiers again on the graph from_dataset returned changes
\* nothing: no step of the second pass changes a tier, a node or an edge.
C4_RerunChangesNothing == [][run' = 2 => graph' = graph]_vars

\* C5: after from_dataset on an acyclic full graph, a derived item's tier is
\* 1 + the least final tier of the recipes producing it.
C5_ItemTierIsMinPlusOne ==
    FromDatasetReturned /\ Acyclic(graph) =>
        \A i \in NodeIdxs(graph) :
            graph.nodes[i].kind = "Item" /\ ~graph.nodes[i].natural =>
                /\ Producers(graph, i) # {}
                /\ get_tier(graph.nodes[i]) = 1 + SetTierMin(graph, Producers(graph, i))

\* C6: after from_dataset on an acyclic full graph, a recipe's tier is 1 + the
\* sum of the final tiers of its ingredient item nodes.
C6_RecipeTierIsSumPlusOne ==
    FromDatasetReturned /\ Acyclic(graph) =>
        \A i \in NodeIdxs(graph) :
            graph.nodes[i].kind = "Recipe" =>
                get_tier(graph.nodes[i]) = 1 + SetTierSum(graph, Producers(graph, i))

C6_Witness ==
    /\ pc = "ready"
    /\ Acyclic(graph)
    /\ \E i \in NodeIdxs(graph) :
          /\ graph.nodes[i].kind = "Recipe"
          /\ \E j \in Producers(graph, i) : ~graph.nodes[j].natural
          /\ \E j \in Producers(graph, i) : graph.nodes[j].natural

\* C7: after tier assignment every natural item has the one base tier, also
\* when recipes of the full graph produce it.
C7_NaturalTierPinned ==
    (FromDatasetReturned \/ pc = "retiered") =>
        \A i \in NodeIdxs(graph) :
            graph.nodes[i].kind = "Item" /\ graph.nodes[i].natural =>
                get_tier(graph.nodes[i]) = NaturalTier

C7_Witness ==
    /\ pc = "ready"
    /\ \E i \in NodeIdxs(graph) :
          /\ graph.nodes[i].kind = "Item"
          /\ graph.nodes[i].natural
          /\ Producers(graph, i) # {}

TierOf(kind, name) ==
    get_tier(graph.nodes[CHOOSE i \in NodeIdxs(graph) :
                            graph.nodes[i].kind = kind /\ graph.nodes[i].name = name])

\* C8: for the literal four-recipe catalogue from_dataset gives the item tiers
\* copper-ore 0, iron-ore 0, copper-plate 2, iron-plate 2, electronic-circuit 6
\* and the recipe tiers copper-plate 1, iron-plate 1, electronic-circuit 5.
C8_LiteralTiers ==
    dataset = DataSetMock /\ FromDatasetReturned =>
        /\ TierOf("Item", "copper-ore") = 0
        /\ TierOf("Item", "iron-ore") = 0
        /\ TierOf("Item", "copper-plate") = 2
        /\ TierOf("Item", "iron-plate") = 2
        /\ TierOf("Item", "electronic-circuit") = 6
        /\ TierOf("Recipe", "copper-plate") = 1
        /\ TierOf("Recipe", "iron-plate") = 1
        /\ TierOf("Recipe", "electronic-circuit") = 5

\* the call C9 is about has returned
CircuitQueryReturned ==
    /\ dataset = DataSetMock
    /\ pc = "returned"
    /\ target.kind = "Item"
    /\ target.name = "electronic-circuit"
    /\ get_node_idx(graph, target) # 0
    /\ max_number_of_solutions = 10

\* C9 as stated: for the literal catalogue, get_crafting_trees(electronic-circuit
\* item, 10) returns exactly 1 solution, of exactly 7 nodes.
C9_OneSolutionOfSevenNodes ==
    CircuitQueryReturned =>
        /\ ret = "Some"
        /\ Len(complete_subgraphs) = 1
        /\ Len(complete_subgraphs[1].nodes) = 7

\* C9 as amended: the call returns exactly 1 solution, of exactly 10 nodes
\* (6 items and 4 recipes).
C9_OneSolutionOfTenNodes ==
    CircuitQueryReturned =>
        /\ ret = "Some"
        /\ Len(complete_subgraphs) = 1
        /\ Len(complete_subgraphs[1].nodes) = 10

C9_Witness == CircuitQueryReturned

\* C10: in every returned solution a derived item has exactly one incoming
\* edge, from a recipe node; so every leaf of a solution is a natural item.
C10_DerivedItemHasOneProducer ==
    ret = "Some" =>
        \A sol \in Solutions : \A i \in NodeIdxs(sol) :
            sol.nodes[i].kind = "Item" /\ ~sol.nodes[i].natural =>
                /\ Cardinality(IncomingEdges(sol, i)) = 1
                /\ \A j \in Producers(sol, i) : sol.nodes[j].kind = "Recipe"

OutgoingEdges(g, i) == {k \in 1..Len(g.edges) : g.edges[k].src = i}

\* sol is a tree whose edges all lead towards its first node, the target
RootedAtTarget(sol) ==
    /\ Len(sol.nodes) >= 1
    /\ sol.nodes[1] = target
    /\ OutgoingEdges(sol, 1) = {}
    /\ \A i \in NodeIdxs(sol) \ {1} :
          /\ Cardinality(OutgoingEdges(sol, i)) = 1
          /\ 1 \in ReachFrom(sol, {i})
    /\ Acyclic(sol)

\* C11: every solution get_crafting_trees returns is acyclic and rooted at
\* the target: the target is a node without outgoing edge, every other node
\* has exactly one outgoing edge and a directed path to the target.
C11_SolutionsRootedAtTarget ==
    ret = "Some" => \A sol \in Solutions : RootedAtTarget(sol)

\* a returned solution with an item below a recipe below the target's recipe
C11_Witness ==
    /\ ret = "Some"
    /\ \E sol \in Solutions : Len(sol.nodes) >= 5

\* the (source node, weight) pairs on the incoming edges of node i
IncomingPairs(g, i) ==
    {<<g.nodes[g.edges[k].src], g.edges[k].weight>> : k \in IncomingEdges(g, i)}

\* the edges of g as (source node, target node, weight) triples
EdgeTriples(g) ==
    {<<g.nodes[g.edges[k].src], g.nodes[g.edges[k].dst], g.edges[k].weight>> :
        k \in 1..Len(g.edges)}

\* C12: in every returned solution a recipe node has one incoming edge per
\* ingredient node the recipe has in the full graph, from the same items and
\* with the same weights; and every recipe-to-item edge has the weight of the
\* full graph's edge between these two nodes.
C12_SolutionEdgesMatchFullGraph ==
    ret = "Some" =>
        \A sol \in Solutions :
            /\ \A i \in NodeIdxs(sol) :
                  sol.nodes[i].kind = "Recipe" =>
                      LET full_idx == get_node_idx(graph, sol.nodes[i])
                      IN /\ full_idx # 0
                         /\ IncomingPairs(sol, i) = IncomingPairs(graph, full_idx)
                         /\ Cardinality(IncomingEdges(sol, i))
                                = Cardinality(IncomingEdges(graph, full_idx))
                         /\ Cardinality(IncomingEdges(sol, i))
                                = Cardinality(IncomingPairs(sol, i))
            /\ \A k \in 1..Len(sol.edges) :
                  sol.nodes[sol.edges[k].src].kind = "Recipe" =>
                      <<sol.nodes[sol.edges[k].src], sol.nodes[sol.edges[k].dst],
                        sol.edges[k].weight>> \in EdgeTriples(graph)

\* a returned solution with a recipe of two ingredients of different amounts
C12_Witness ==
    /\ ret = "Some"
    /\ \E sol \in Solutions : \E i \in NodeIdxs(sol) :
          /\ sol.nodes[i].kind = "Recipe"
          /\ \E j, k \in IncomingEdges(sol, i) :
                sol.edges[j].weight # sol.edges[k].weight

\* the full graph has a node of the target's variant for the target's name
TargetPresent ==
    \E i \in NodeIdxs(graph) :
        graph.nodes[i].kind = target.kind /\ graph.nodes[i].name = target.name

\* C13: a call whose target's item or recipe is absent from the full graph
\* returns None at once, for every K; it never returns Some.
C13_AbsentTargetIsNone ==
    target # NoTarget /\ ~TargetPresent => pc = "returned" /\ ret = "None"

\* the call has returned for a recipe the full graph does not have, K > 0
C13_Witness ==
    /\ pc = "returned"
    /\ target.kind = "Recipe"
    /\ ~TargetPresent
    /\ max_number_of_solutions = MaxK

\* C14: get_crafting_trees returns None only when the target is not found:
\* when the full graph has a node of the target's variant for the target's
\* entity name the call returns Some, whatever tier the target Node carries.
C14_PresentTargetIsSome ==
    pc = "returned" /\ TargetPresent => ret = "Some"

\* an ingredient or result list as a set of (item name, amount) pairs
AmountPairs(list) == {<<list[k].item.name, list[k].amount>> : k \in 1..Len(list)}

\* the (item name, weight) pairs on the incoming edges of node i
IncomingNamePairs(g, i) ==
    {<<g.nodes[g.edges[k].src].name, g.edges[k].weight>> : k \in IncomingEdges(g, i)}

\* the (item name, weight) pairs on the outgoing edges of node i
OutgoingNamePairs(g, i) ==
    {<<g.nodes[g.edges[k].dst].name, g.edges[k].weight>> : k \in OutgoingEdges(g, i)}

\* C15: in the full graph from_dataset returns, the (item, amount) pairs on
\* the incoming edges of every recipe node are the recipe's ingredient list,
\* also when only some of the ingredients are reachable from natural items.
C15_IncomingEdgesAreIngredients ==
    FromDatasetReturned =>
        \A i \in NodeIdxs(graph) :
            graph.nodes[i].kind = "Recipe" =>
                /\ \A j \in Producers(graph, i) : graph.nodes[j].kind = "Item"
                /\ IncomingNamePairs(graph, i)
                       = AmountPairs(get_recipe(dataset, graph.nodes[i].name).ingredients)

\* C16: in the full graph from_dataset returns, the (item, amount) pairs on
\* the outgoing edges of every recipe node are the recipe's result list, so a
\* Recipe-to-Item edge weighs the amount produced; and every Item-to-Recipe
\* edge weighs the amount of the item the recipe consumes.
C16_OutgoingEdgesAreResults ==
    FromDatasetReturned =>
        /\ \A i \in NodeIdxs(graph) :
              graph.nodes[i].kind = "Recipe" =>
                  /\ \A j \in Consumers(graph, i) : graph.nodes[j].kind = "Item"
                  /\ OutgoingNamePairs(graph, i)
                         = AmountPairs(get_recipe(dataset, graph.nodes[i].name).results)
        /\ \A k \in 1..Len(graph.edges) :
              graph.nodes[graph.edges[k].src].kind = "Item" =>
                  /\ graph.nodes[graph.edges[k].dst].kind = "Recipe"
                  /\ <<graph.nodes[graph.edges[k].src].name, graph.edges[k].weight>>
                         \in AmountPairs(
                                get_recipe(dataset,
                                           graph.nodes[graph.edges[k].dst].name).ingredients)

\* from_dataset has returned a graph with a recipe of two results that
\* consumes more than one unit of an ingredient
C16_Witness ==
    /\ pc = "ready"
    /\ \E i \in NodeIdxs(graph) :
          /\ graph.nodes[i].kind = "Recipe"
          /\ Cardinality(Consumers(graph, i)) >= 2
    /\ \E k \in 1..Len(graph.edges) :
          graph.nodes[graph.edges[k].src].kind = "Item" /\ graph.edges[k].weight > 1

RECURSIVE ReachableFrom(_, _)
\* the item names a catalogue reaches from the names seen: a recipe is reached
\* through any one of its ingredients and then reaches all its results
ReachableFrom(ds, seen) ==
    LET more == seen \cup UNION {{ds.recipes[k].results[r].item.name :
                                      r \in 1..Len(ds.recipes[k].results)} :
                                  k \in {j \in 1..Len(ds.recipes) :
                                            \E n \in seen : DependsOn(ds.recipes[j], n)}}
    IN IF more = seen THEN seen ELSE ReachableFrom(ds, more)

\* the names of the items reachable from the natural items of the catalogue
ReachableItems(ds) ==
    ReachableFrom(ds, {ds.items[k].name : k \in {j \in 1..Len(ds.items) :
                                                   ds.items[j].natural}})

\* the names of the recipes with an ingredient that is reachable
ReachableRecipes(ds) ==
    {ds.recipes[k].name : k \in {j \in 1..Len(ds.recipes) :
                                   \E n \in ReachableItems(ds) :
                                       DependsOn(ds.recipes[j], n)}}

NaturalNodes(g) == {i \in NodeIdxs(g) : g.nodes[i].kind = "Item" /\ g.nodes[i].natural}

\* C17: every node of the full graph from_dataset returns is reachable by a
\* directed path from a natural item node, and a recipe none of whose
\* ingredients is reachable from a natural item (a recipe without ingredients
\* included) is not a node of the full graph.
C17_FullGraphReachable ==
    FromDatasetReturned =>
        /\ NodeIdxs(graph) \subseteq ReachFrom(graph, NaturalNodes(graph))
        /\ \A k \in 1..Len(dataset.recipes) :
              dataset.recipes[k].name \notin ReachableRecipes(dataset) =>
                  get_recipe_idx_from_name(graph, dataset.recipes[k].name) = 0

\* from_dataset has returned for a catalogue with a recipe without
\* ingredients, a recipe over an unreachable item and a reachable recipe
C17_Witness ==
    /\ pc = "ready"
    /\ \E k \in 1..Len(dataset.recipes) : dataset.recipes[k].ingredients = <<>>
    /\ \E k \in 1..Len(dataset.recipes) :
          /\ dataset.recipes[k].ingredients # <<>>
          /\ dataset.recipes[k].name \notin ReachableRecipes(dataset)
    /\ \E i \in NodeIdxs(graph) : graph.nodes[i].kind = "Recipe"

ItemNames(ds) == {ds.items[k].name : k \in 1..Len(ds.items)}

RecipeNamesOf(ds) == {ds.recipes[k].name : k \in 1..Len(ds.recipes)}

\* C18: the graph from_dataset returns has as many nodes as the catalogue has
\* items reachable from natural items plus reachable recipes; when every
\* item and every recipe is reachable that is |items| + |recipes|.
C18_NodeCount ==
    FromDatasetReturned =>
        /\ Len(graph.nodes) = Cardinality(ReachableItems(dataset))
                                 + Cardinality(ReachableRecipes(dataset))
        /\ /\ ReachableItems(dataset) = ItemNames(dataset)
           /\ ReachableRecipes(dataset) = RecipeNamesOf(dataset)
           => Len(graph.nodes) = Len(dataset.items) + Len(dataset.recipes)

\* from_dataset has returned for a catalogue of which it reaches some recipe
\* but not every recipe and not every item
C18_Witness ==
    /\ pc = "ready"
    /\ ReachableRecipes(dataset) # {}
    /\ ReachableRecipes(dataset) # RecipeNamesOf(dataset)
    /\ ReachableItems(dataset) # ItemNames(dataset)

\* g has at most one node per (variant, entity name)
UniqueNodes(g) ==
    \A i, j \in NodeIdxs(g) :
        g.nodes[i].kind = g.nodes[j].kind /\ g.nodes[i].name = g.nodes[j].name => i = j

\* C19: the full graph from_dataset returns has at most one node per
\* (variant, entity name), whatever the order of the catalogue's recipes.
C19_FullGraphNodesUnique == FromDatasetReturned => UniqueNodes(graph)

\* from_dataset has returned a graph in which create-or-reuse reused a node:
\* an item of two producers, a recipe of two ingredient nodes
C19_Witness ==
    /\ pc = "ready"
    /\ \E i \in NodeIdxs(graph) :
          graph.nodes[i].kind = "Item" /\ Cardinality(Producers(graph, i)) >= 2
    /\ \E i \in NodeIdxs(graph) :
          graph.nodes[i].kind = "Recipe" /\ Cardinality(Producers(graph, i)) >= 2

\* C20: every solution get_crafting_trees returns has at most one node per
\* (variant, entity name), also when one item is an ingredient of two
\* recipes of the solution.
C20_SolutionNodesUnique ==
    ret = "Some" => \A sol \in Solutions : UniqueNodes(sol)

\* every edge of g joins an Item node and a Recipe node
Bipartite(g) ==
    \A k \in 1..Len(g.edges) :
        g.nodes[g.edges[k].src].kind # g.nodes[g.edges[k].dst].kind

\* C21: bipartiteness.  In every state of the builder, in the final full
\* graph and in every partial and completed solution of the enumerator, no
\* edge connects two Item nodes or two Recipe nodes.
C21_Bipartite ==
    /\ Bipartite(graph)
    /\ \A k \in 1..Len(processing_queue) : Bipartite(processing_queue[k].subgraph)
    /\ \A sol \in Solutions : Bipartite(sol)

\* the enumerator holds a partial solution with edges and a completed one
C21_Witness ==
    /\ pc = "get_crafting_trees"
    /\ \E k \in 1..Len(processing_queue) :
          /\ Len(processing_queue[k].subgraph.edges) >= 2
          /\ processing_queue[k].processing_indices # <<>>
    /\ \E sol \in Solutions : Len(sol.edges) >= 2

\* the builder's worklist has run empty, the tier pass has not started
BuilderDone == pc = "from_dataset" /\ current_indices = <<>>

\* the nodes of g by variant and name, and its edges with their weights
NodeKeys(g) == {<<g.nodes[i].kind, g.nodes[i].name>> : i \in NodeIdxs(g)}

EdgeKeys(g) ==
    {<<g.nodes[g.edges[k].src].kind, g.nodes[g.edges[k].src].name,
       g.nodes[g.edges[k].dst].kind, g.nodes[g.edges[k].dst].name,
       g.edges[k].weight>> : k \in 1..Len(g.edges)}

\* The nodes and edges a catalogue determines when it is read as a set of
\* items and a set of recipes, each recipe as a set of ingredient pairs and a
\* set of result pairs: no listing order enters.
CatalogueNodes(ds) ==
    {<<"Item", n>> : n \in ReachableItems(ds)}
        \cup {<<"Recipe", n>> : n \in ReachableRecipes(ds)}

CatalogueEdges(ds) ==
    UNION {
        {<<"Item", p[1], "Recipe", rec.name, p[2]>> :
            p \in {q \in AmountPairs(rec.ingredients) : q[1] \in ReachableItems(ds)}}
        \cup {<<"Recipe", rec.name, "Item", p[1], p[2]>> : p \in AmountPairs(rec.results)} :
        rec \in {r \in {ds.recipes[k] : k \in 1..Len(ds.recipes)} :
                    r.name \in ReachableRecipes(ds)}}

\* C22: the (variant, name) nodes and the weighted edges the builder
\* produces do not depend on the order in which the catalogue lists its
\* recipes and natural items, nor on the order the worklist is processed in:
\* they are the nodes and edges the catalogue determines as a set, each once.
C22_BuildIsOrderIndependent ==
    BuilderDone =>
        /\ NodeKeys(graph) = CatalogueNodes(dataset)
        /\ EdgeKeys(graph) = CatalogueEdges(dataset)
        /\ Len(graph.nodes) = Cardinality(NodeKeys(graph))
        /\ Len(graph.edges) = Cardinality(EdgeKeys(graph))

\* the builder is done with the literal catalogue listed in reverse
C22_Witness == BuilderDone /\ dataset = ReversedMock

RECURSIVE ChoiceTree(_, _)
\* the recipe choices below node i of a solution: the node's variant and
\* name with the choice trees of the nodes attached to it
ChoiceTree(sol, i) ==
    <<sol.nodes[i].kind, sol.nodes[i].name,
      {ChoiceTree(sol, j) : j \in Producers(sol, i)}>>

\* C23: the solutions of one get_crafting_trees call are pairwise distinct
\* recipe-choice combinations: two collected solutions differ in the recipe
\* chosen for some item occurrence.
C23_SolutionsDistinct ==
    \A i, j \in 1..Len(complete_subgraphs) :
        i # j => ChoiceTree(complete_subgraphs[i], 1) # ChoiceTree(complete_subgraphs[j], 1)

\* a call has returned two solutions
C23_Witness == ret = "Some" /\ Len(complete_subgraphs) >= 2

\* no natural item node of g has an incoming edge
NaturalsAreLeaves(g) == \A i \in NaturalNodes(g) : IncomingEdges(g, i) = {}

RECURSIVE PendingTotal(_)
\* the number of pending nodes over all entries of the heap
PendingTotal(queue) ==
    IF queue = <<>> THEN 0
    ELSE Len(Head(queue).processing_indices) + PendingTotal(Tail(queue))

Subgraphs(queue) == {queue[k].subgraph : k \in 1..Len(queue)}

\* C24: the enumerator never expands a natural item.  In every partial and
\* every collected solution a natural item node has no incoming edge, also
\* when recipes of the full graph produce the item; and the iteration that
\* handles a natural item only takes it off its branch's pending list: the
\* branches' nodes and edges and the collected solutions stay as they are.
C24_NaturalNeverExpanded ==
    [][/\ \A sol \in Subgraphs(processing_queue') \cup Solutions' : NaturalsAreLeaves(sol)
       /\ EnumNatural =>
            /\ Subgraphs(processing_queue') = Subgraphs(processing_queue)
            /\ Len(processing_queue') = Len(processing_queue)
            /\ PendingTotal(processing_queue') = PendingTotal(processing_queue) - 1
            /\ complete_subgraphs' = complete_subgraphs]_vars

\* a returned solution holds a natural item that recipes of the full graph
\* produce
C24_Witness ==
    /\ ret = "Some"
    /\ \E sol \in Solutions : \E i \in NaturalNodes(sol) :
          /\ i # 1
          /\ \E j \in NaturalNodes(graph) :
                graph.nodes[j] = sol.nodes[i] /\ Producers(graph, j) # {}

\* the nodes on the path from node i of a solution to the target, i excluded
Ancestors(sol, i) == ReachFrom(sol, Consumers(sol, i))

\* no item node of sol is equal to a node on its own path to the target
NoRepeatedAncestor(sol) ==
    \A i \in NodeIdxs(sol) :
        sol.nodes[i].kind = "Item" =>
            \A j \in Ancestors(sol, i) : sol.nodes[j] # sol.nodes[i]

\* C25: expanding a recipe, an ingredient that equals a node on the path
\* from the recipe to the target is skipped, not re-added: the partial
\* solution gets no node and no edge for it.  So no partial or collected
\* solution holds an item node that is equal to one of its ancestors.
C25_RepeatedIngredientNotAdded ==
    /\ \A k \in 1..Len(processing_queue) :
          NoRepeatedAncestor(processing_queue[k].subgraph)
    /\ \A sol \in Solutions : NoRepeatedAncestor(sol)

RECURSIVE Work(_)
\* grows with every node a branch gets and with every pending node it loses
Work(queue) ==
    IF queue = <<>> THEN 0
    ELSE 2 * Len(Head(queue).subgraph.nodes) - Len(Head(queue).processing_indices)
            + Work(Tail(queue))

\* every pending node of every heap entry lies on a path to the target that
\* is no longer than the full graph allows when no item is expanded below
\* itself
PendingDepthBounded(queue) ==
    \A k \in 1..Len(queue) :
        \A p \in 1..Len(queue[k].processing_indices) :
            Cardinality(ReachFrom(queue[k].subgraph,
                                  {queue[k].processing_indices[p][2]}))
                <= 2 * Len(graph.nodes) + 1

\* C26: get_crafting_trees terminates for every full graph, target and K,
\* cyclic ingredient dependencies included, and its loop ends because K
\* solutions were collected or because the heap is empty.  Every iteration
\* can be taken, collects a solution or else lets the branches grow (so no
\* state of the loop comes back), the branches cannot grow without bound,
\* and the loop is left with Some, on an empty heap or a reached cap.
C26_EnumerationTerminates ==
    [][pc = "get_crafting_trees" =>
          /\ processing_queue # <<>> => Poppable(processing_queue) # {}
          /\ pc' = "get_crafting_trees" =>
                \/ Len(complete_subgraphs') > Len(complete_subgraphs)
                \/ /\ complete_subgraphs' = complete_subgraphs
                   /\ Work(processing_queue') > Work(processing_queue)
          /\ PendingDepthBounded(processing_queue')
          /\ pc' # "get_crafting_trees" =>
                /\ pc' = "returned"
                /\ ret' = "Some"
                /\ \/ processing_queue = <<>>
                   \/ CapReached(Len(complete_subgraphs), max_number_of_solutions)]_vars

\* a call for a derived item has returned on a full graph with a cycle
C26_Witness ==
    /\ ret = "Some"
    /\ ~Acyclic(graph)
    /\ ~target.natural
    /\ Len(complete_subgraphs) >= 2

\* C27: the list get_crafting_trees returns is in non-decreasing order of
\* total tier sum: no solution is collected after one of a strictly larger
\* tier sum.
C27_SolutionsByTierSum ==
    \A i \in 1..(Len(complete_subgraphs) - 1) :
        Score(complete_subgraphs[i]) <= Score(complete_subgraphs[i + 1])

\* a call has returned two solutions of different tier sums
C27_Witness ==
    /\ ret = "Some"
    /\ Len(complete_subgraphs) >= 2
    /\ Score(complete_subgraphs[1]) # Score(complete_subgraphs[Len(complete_subgraphs)])

\* C28: K-best.  When get_crafting_trees stops on the K cap, a complete
\* solution that was not returned, that is a completion of an entry still in
\* the heap, has at least the tier sum of every returned solution.  A
\* completion adds nodes of tier >= 0 to its entry, so it is enough that in
\* every state of the loop, the one the cap test stops in included, every
\* heap entry has at least the tier sum of every collected solution.
C28_FrontierNotBetter ==
    Solutions # {} /\ processing_queue # <<>> =>
        /\ \A i \in NodeIdxs(graph) : get_tier(graph.nodes[i]) >= 0
        /\ \A sol \in Solutions : \A k \in 1..Len(processing_queue) :
              Score(processing_queue[k].subgraph) >= Score(sol)

\* the loop is about to stop on the cap: K >= 1 solutions are collected and
\* the entry the heap pops next is an unfinished branch
C28_Witness ==
    /\ pc = "get_crafting_trees"
    /\ max_number_of_solutions >= 1
    /\ CapReached(Len(complete_subgraphs), max_number_of_solutions)
    /\ \E i \in Poppable(processing_queue) :
          processing_queue[i].processing_indices # <<>>

RECURSIVE Count(_, _), CountSum(_, _), CountProduct(_, _)
\* the number of recipe-choice trees of item node i of an acyclic graph:
\* 1 for a natural item, else the sum over the recipes producing the item of
\* the product of the counts of the recipe's ingredients
Count(g, i) ==
    IF g.nodes[i].natural THEN 1 ELSE CountSum(g, Producers(g, i))

CountSum(g, recipes) ==
    IF recipes = {} THEN 0
    ELSE LET r == CHOOSE x \in recipes : TRUE
         IN CountProduct(g, Producers(g, r)) + CountSum(g, recipes \ {r})

CountProduct(g, items) ==
    IF items = {} THEN 1
    ELSE LET i == CHOOSE x \in items : TRUE
         IN Count(g, i) * CountProduct(g, items \ {i})

\* C29: completeness.  On an acyclic full graph and with K above the number
\* of recipe-choice trees of the target item X, get_crafting_trees(X, K)
\* returns exactly count(X) solutions, and no combination twice.
C29_AllCombinationsReturned ==
    ret = "Some" /\ target.kind = "Item" /\ Acyclic(graph) =>
        LET count == Count(graph, get_node_idx(graph, target))
        IN max_number_of_solutions > count =>
              /\ Len(complete_subgraphs) = count
              /\ \A i, j \in 1..count :
                    i # j => ChoiceTree(complete_subgraphs[i], 1)
                                # ChoiceTree(complete_subgraphs[j], 1)

\* a call with K above the count has returned for an item of two producers,
\* one of them with two ingredients
C29_Witness ==
    /\ ret = "Some"
    /\ target.kind = "Item"
    /\ Acyclic(graph)
    /\ max_number_of_solutions > Count(graph, get_node_idx(graph, target))
    /\ Count(graph, get_node_idx(graph, target)) >= 2
    /\ \E r \in Producers(graph, get_node_idx(graph, target)) :
          Cardinality(Producers(graph, r)) >= 2

\* C30: for a full graph built by from_dataset, a target node that is in it
\* and K >= 1, get_crafting_trees returns at least one solution: every
\* derived item node of the full graph has a producing recipe, the call
\* returns Some, and the returned list is not empty.
C30_AtLeastOneSolution ==
    /\ FromDatasetReturned =>
          \A i \in NodeIdxs(graph) :
              graph.nodes[i].kind = "Item" /\ ~graph.nodes[i].natural =>
                  Producers(graph, i) # {}
    /\ pc = "returned" /\ max_number_of_solutions >= 1 =>
          (get_node_idx(graph, target) # 0 =>
              ret = "Some" /\ Len(complete_subgraphs) >= 1)

\* a call with K = 1 for a derived item of the full graph has returned
C30_Witness ==
    /\ pc = "returned"
    /\ max_number_of_solutions = 1
    /\ target.kind = "Item"
    /\ ~target.natural
    /\ get_node_idx(graph, target) # 0

(***************************************************************************)
(* C31: two builds of one catalogue.                                       *)
(***************************************************************************)
\* the final tier of every node of a graph, by variant and name
NodeTiers(g) ==
    {<<g.nodes[i].kind, g.nodes[i].name, get_tier(g.nodes[i])>> : i \in NodeIdxs(g)}

\* from_dataset has returned for the second listing of a catalogue
SecondBuildReturned == FromDatasetReturned /\ earlier_build # <<>>

\* C31: the final tiers after from_dataset depend only on the set of items
\* and recipes: when from_dataset has returned for two listings of one
\* catalogue, every node has the same tier in both graphs.
C31_TiersIndependentOfListing ==
    SecondBuildReturned => NodeTiers(graph) = NodeTiers(earlier_build[1].graph)

====
